---- MODULE Spec2Model ----
(***************************************************************************)
(* Model of my-digital-home: the credential store (user table, Register,   *)
(* UpdatePassword in its GORM and database/sql implementations) and the    *)
(* timeout guard (TimeoutMiddleware under RecoveryMiddleware).             *)
(***************************************************************************)
EXTENDS Integers, Sequences, FiniteSets, TLC

VARIABLES
    \* ---- credential store (MySQL table base_users / users) ----
    users,      \* id -> row or NoRow
    lockOwner,  \* id -> the transactions holding the row's exclusive lock (at most one)
    \* ---- one UpdatePassword call per caller ----
    upc,        \* position of the call
    uimpl,      \* which repository executes it: "gorm" | "mysql"
    uid,        \* userID argument
    uhash,      \* newPwdHash argument
    uReadVer,   \* user.Version as read by the call (0 before the read)
    uRows,      \* result.RowsAffected of the UPDATE statement (-1 before it ran)
    uResult,    \* error value returned to the caller
    uStartVer,  \* version persisted when the call was made
    \* ---- one Register request per caller ----
    rpc,        \* position of the handler
    rname,      \* req.Username
    remail,     \* req.Email
    rhashed,    \* hashedPwd, "" until bcrypt has run
    rstatus,    \* HTTP status written, 0 until the handler answers
    rbody,      \* the "error" text of the answer, as the parts joined by ": "
    \* ---- one request through RecoveryMiddleware and TimeoutMiddleware ----
    prod,        \* cfg.IsProd()
    parentDone,  \* the enclosing context c has been cancelled: c.Done() is closed
    gpc,         \* position of the request's own task (the guard's caller)
    wpc,         \* position of the worker goroutine
    done,        \* the done channel is closed
    timerFired,  \* timeoutCtx's deadline has elapsed
    cancelled,   \* the deferred cancel() has run
    panicErr,    \* the variable panicErr
    wPanic,      \* the value the worker is panicking with
    selected,    \* the case the select statement took
    readyAtSelect, \* the cases that were ready when the select was entered
    resp,        \* ctx.Response as written so far
    aborted,     \* ctx.Abort() has been called
    sent,        \* the response the server sent to the client
    logs,        \* what hlog has written
    n503,        \* how many times the guard has written the 503 response
    raised,      \* the panic propagating on the request's own task
    wWrites,     \* responses the work has written
    doneBeforeDeadline, \* done was closed while the deadline had not elapsed
    respAtDone,  \* ctx.Response as the work left it
    latePanic,   \* the work panicked after the guard had answered 503
    \* ---- the token bucket behind RateLimitMiddleware ----
    capacity,    \* tb.capacity, the rate argument
    rate,        \* tb.rate, the interval argument (in ticks of the clock)
    tokens,      \* number of elements buffered in the channel tb.tokens
    tpc,         \* position of the refill goroutine
    crashed,     \* the process has died of an unrecovered panic
    apc,         \* position of each request in RateLimitMiddleware's handler
    allowed,     \* what limiter.Allow() returned to each request
    astatus,     \* status RateLimitMiddleware answered each request with, 0 if none
    nBuckets,    \* TokenBucket values constructed so far
    nRefillers,  \* refill goroutines started so far
    nAllow,      \* Allow calls made so far
    nTicks,      \* ticks the refill goroutine has received so far
    lastOps,     \* the last three operations on the bucket
    kAtTick,     \* permits available after the latest refill
    callsSince,  \* Allow calls decided since the latest refill
    grantsSince, \* of which returned true
    nGranted,    \* Allow calls that returned true so far
    nAdded,      \* refill ticks so far whose permit entered the channel
    \* ---- one request through the handler chain RegisterAPIs builds ----
    index,       \* ctx.index, shared by every goroutine that holds ctx
    frames,      \* per goroutine, its stack of ctx.Next loops and handlers
    spawned,     \* TimeoutMiddleware has started its worker goroutine
    timedOut,    \* TimeoutMiddleware took its timeout branch
    stageLog,    \* the stages that have run, in order
    \* ---- hasMaliciousContent, one call per request ----
    sQuery,      \* ctx.QueryArgs() of each request, as a list of parameters
    sForm,       \* ctx.PostArgs() of each request
    spc,         \* position of each call
    sPos,        \* how many parameters VisitAll has handed to the visitor
    found,       \* the variable found of each call
    nCheck,      \* invocations of the closure check by each call
    sResult      \* what each call returned

storeVars == <<users, lockOwner, upc, uimpl, uid, uhash, uReadVer, uRows,
               uResult, uStartVer, rpc, rname, remail, rhashed, rstatus,
               rbody>>

guardVars == <<prod, parentDone, gpc, wpc, done, timerFired, cancelled, panicErr, wPanic,
               selected, readyAtSelect, resp, aborted, sent, logs, n503, raised,
               wWrites, doneBeforeDeadline, respAtDone, latePanic>>

bucketVars == <<capacity, rate, tokens, tpc, crashed, apc, allowed, astatus,
                nBuckets, nRefillers, nAllow, nTicks, lastOps, kAtTick,
                callsSince, grantsSince,
               nGranted, nAdded>>

chainVars == <<index, frames, spawned, timedOut, stageLog>>

scanVars == <<sQuery, sForm, spc, sPos, found, nCheck, sResult>>

vars == <<storeVars, guardVars, bucketVars, chainVars, scanVars>>

----------------------------------------------------------------------------
(* Bounds *)
MaxId       == 2
MaxVersion  == 2

Ids        == 1..MaxId
Updaters   == {"u1", "u2"}
Registrars == {"r1", "r2"}
Usernames  == {"alice", "bob"}
Emails     == {"a@x", "b@x"}
(* The digest each caller submits: distinct callers submit distinct ones,  *)
(* and "h0" is the digest stored at registration.                          *)
CallerHashes(p) == IF p = "u1" THEN {"h1"} ELSE {"h2"}

NoRow   == [absent |-> TRUE]
NoOwner == {}

----------------------------------------------------------------------------
(* Error values.  The repository returns the sentinels of package dao      *)
(* (impl); the handler compares against those of package errors.           *)
ErrUserNotFound      == "dao.ErrUserNotFound"
ErrDuplicateEntry    == "dao.ErrDuplicateEntry"
ErrDatabaseInternal  == "dao.ErrDatabaseInternal"
ErrNil     == "nil"
ErrPending == "pending"

(* A row of the user table *)
User(username, email, hash, active, version) ==
    [Username |-> username, Email |-> email, PasswordHash |-> hash,
     IsActive |-> active, Version |-> version]

Exists(id) == id \in Ids /\ users[id] # NoRow

ActiveRow_IgnoresFlag(id) == Exists(id)

(* WHERE id = ? AND is_active = true *)
ActiveRow(id) == Exists(id) /\ users[id].IsActive

(* InnoDB row lock: a locking read or a write waits while another          *)
(* transaction holds the row.                                              *)
CanLock(id, p) == lockOwner[id] \subseteq {p}

ReleaseLocks(p) == [i \in Ids |-> lockOwner[i] \ {p}]

(* The ids a caller asks for: every id that has a row, and the first id    *)
(* that has none (ids without a row are indistinguishable).                *)
TargetIds == {i \in Ids : \A j \in Ids : j < i => Exists(j)}

updVars == <<upc, uimpl, uid, uhash, uReadVer, uRows, uResult, uStartVer>>
regVars == <<rpc, rname, remail, rhashed, rstatus, rbody>>

----------------------------------------------------------------------------
(* UpdatePassword *)

(* A caller invokes UpdatePassword(userID, newPwdHash) on one of the two   *)
(* repositories; the GORM one opens a transaction.                         *)
UpdatePasswordCall(p) ==
    /\ upc[p] = "idle"
    /\ \E impl \in {"gorm", "mysql"}, id \in TargetIds, h \in CallerHashes(p) :
          /\ Exists(id) => users[id].Version < MaxVersion
          /\ uimpl' = [uimpl EXCEPT ![p] = impl]
          /\ uid' = [uid EXCEPT ![p] = id]
          /\ uhash' = [uhash EXCEPT ![p] = h]
          /\ uStartVer' = [uStartVer EXCEPT ![p] = IF Exists(id) THEN users[id].Version ELSE 0]
          /\ upc' = [upc EXCEPT ![p] = IF impl = "gorm" THEN "select" ELSE "exec"]
    /\ uReadVer' = [uReadVer EXCEPT ![p] = 0]
    /\ uRows' = [uRows EXCEPT ![p] = -1]
    /\ uResult' = [uResult EXCEPT ![p] = ErrPending]
    /\ UNCHANGED <<users, lockOwner, regVars, guardVars, bucketVars, chainVars, scanVars>>

(* The check on RowsAffected that ends both implementations *)
RowsAffectedError_Ignored(rows) == ErrNil

RowsAffectedError(rows) == IF rows = 0 THEN ErrUserNotFound ELSE ErrNil

(* tx.Clauses(clause.Locking{Strength: "UPDATE"}).                         *)
(*    Where("id = ? AND is_active = ?", userID, true).First(&user)         *)
(* forUpdate: the statement carries the FOR UPDATE clause.                 *)
GormFirst(p, forUpdate) ==
    /\ upc[p] = "select"
    /\ \/ \* the statement fails: return wrapGormError(err)
          /\ uResult' = [uResult EXCEPT ![p] = ErrDatabaseInternal]
          /\ upc' = [upc EXCEPT ![p] = "end"]
          /\ UNCHANGED <<lockOwner, uReadVer>>
       \/ \* gorm.ErrRecordNotFound -> ErrUserNotFound
          /\ ~ActiveRow(uid[p])
          /\ uResult' = [uResult EXCEPT ![p] = ErrUserNotFound]
          /\ upc' = [upc EXCEPT ![p] = "end"]
          /\ UNCHANGED <<lockOwner, uReadVer>>
       \/ /\ ActiveRow(uid[p])
          /\ IF forUpdate
               THEN /\ CanLock(uid[p], p)
                    /\ lockOwner' = [lockOwner EXCEPT ![uid[p]] = {p}]
               ELSE UNCHANGED lockOwner
          /\ uReadVer' = [uReadVer EXCEPT ![p] = users[uid[p]].Version]
          /\ upc' = [upc EXCEPT ![p] = "update"]
          /\ UNCHANGED uResult
    /\ UNCHANGED <<users, uimpl, uid, uhash, uRows, uStartVer, regVars, guardVars, bucketVars, chainVars, scanVars>>

(* tx.Model(&model.User{}).Where("id = ? AND version = ?", userID,         *)
(*    user.Version).Updates(...)   then the checks on result               *)
(* withVersion: the WHERE clause carries the version predicate.            *)
GormUpdates(p, withVersion) ==
    /\ upc[p] = "update"
    /\ \/ \* result.Error != nil
          /\ uResult' = [uResult EXCEPT ![p] = ErrDatabaseInternal]
          /\ UNCHANGED <<lockOwner, uRows>>
       \/ /\ Exists(uid[p]) => CanLock(uid[p], p)
          /\ LET matched == /\ Exists(uid[p])
                            /\ withVersion => users[uid[p]].Version = uReadVer[p]
             IN  /\ uRows' = [uRows EXCEPT ![p] = IF matched THEN 1 ELSE 0]
                 /\ lockOwner' = IF matched THEN [lockOwner EXCEPT ![uid[p]] = {p}]
                                            ELSE lockOwner
                 /\ uResult' = [uResult EXCEPT ![p] =
                                   RowsAffectedError(IF matched THEN 1 ELSE 0)]
    /\ upc' = [upc EXCEPT ![p] = "end"]
    /\ UNCHANGED <<users, uimpl, uid, uhash, uReadVer, uStartVer, regVars, guardVars, bucketVars, chainVars, scanVars>>

(* db.Transaction: commit when the body returned nil, roll back otherwise; *)
(* either way the transaction's row locks are released.                    *)
GormTransactionEnd(p) ==
    /\ upc[p] = "end"
    /\ users' = IF uResult[p] = ErrNil
                  THEN [users EXCEPT ![uid[p]] =
                          [@ EXCEPT !.PasswordHash = uhash[p],
                                    !.Version = uReadVer[p] + 1]]
                  ELSE users
    /\ lockOwner' = ReleaseLocks(p)
    /\ upc' = [upc EXCEPT ![p] = "returned"]
    /\ UNCHANGED <<uimpl, uid, uhash, uReadVer, uRows, uResult, uStartVer, regVars, guardVars, bucketVars, chainVars, scanVars>>

(* The same transaction without the locking clause and without the version *)
(* predicate: a plain read followed by an unconditional write.             *)
GormUpdatePassword_Unguarded(p) ==
    \/ GormFirst(p, FALSE)
    \/ GormUpdates(p, FALSE)
    \/ GormTransactionEnd(p)

(* GormUserRepository.UpdatePassword, statement by statement *)
GormUpdatePassword(p) ==
    \/ GormFirst(p, TRUE)
    \/ GormUpdates(p, TRUE)
    \/ GormTransactionEnd(p)

(* The statement without "id = ?" in its WHERE clause: it writes every     *)
(* active row.                                                             *)
MySQLUpdatePassword_AllRows(p) ==
    /\ upc[p] = "exec"
    /\ \/ /\ uResult' = [uResult EXCEPT ![p] = ErrDatabaseInternal]
          /\ UNCHANGED <<users, uRows, uReadVer>>
       \/ /\ ActiveRow(uid[p])
          /\ \A i \in Ids : CanLock(i, p)
          /\ users' = [i \in Ids |->
                          IF ActiveRow(i)
                            THEN [users[i] EXCEPT !.PasswordHash = uhash[p],
                                                  !.Version = @ + 1]
                            ELSE users[i]]
          /\ uReadVer' = [uReadVer EXCEPT ![p] = users[uid[p]].Version]
          /\ uRows' = [uRows EXCEPT ![p] = 1]
          /\ uResult' = [uResult EXCEPT ![p] = RowsAffectedError(1)]
       \/ /\ ~ActiveRow(uid[p])
          /\ uRows' = [uRows EXCEPT ![p] = 0]
          /\ uResult' = [uResult EXCEPT ![p] = RowsAffectedError(0)]
          /\ UNCHANGED <<users, uReadVer>>
    /\ upc' = [upc EXCEPT ![p] = "returned"]
    /\ UNCHANGED <<lockOwner, uimpl, uid, uhash, uStartVer, regVars, guardVars, bucketVars, chainVars, scanVars>>

(* MySQLUserRepository.UpdatePassword: one autocommit statement            *)
(*   UPDATE users SET password_hash=?, version=version+1, ...              *)
(*   WHERE id = ? AND is_active = TRUE                                     *)
MySQLUpdatePassword(p) ==
    /\ upc[p] = "exec"
    /\ \/ \* r.db.Exec fails
          /\ uResult' = [uResult EXCEPT ![p] = ErrDatabaseInternal]
          /\ UNCHANGED <<users, uRows, uReadVer>>
       \/ /\ ActiveRow(uid[p])
          /\ CanLock(uid[p], p)
          /\ users' = [users EXCEPT ![uid[p]] =
                          [@ EXCEPT !.PasswordHash = uhash[p],
                                    !.Version = @ + 1]]
          /\ uReadVer' = [uReadVer EXCEPT ![p] = users[uid[p]].Version]
          /\ uRows' = [uRows EXCEPT ![p] = 1]
          /\ uResult' = [uResult EXCEPT ![p] = RowsAffectedError(1)]
       \/ \* rowsAffected == 0
          /\ ~ActiveRow(uid[p])
          /\ uRows' = [uRows EXCEPT ![p] = 0]
          /\ uResult' = [uResult EXCEPT ![p] = RowsAffectedError(0)]
          /\ UNCHANGED <<users, uReadVer>>
    /\ upc' = [upc EXCEPT ![p] = "returned"]
    /\ UNCHANGED <<lockOwner, uimpl, uid, uhash, uStartVer, regVars, guardVars, bucketVars, chainVars, scanVars>>

(* The caller has consumed the result and may call again. *)
UpdatePasswordReturn(p) ==
    /\ upc[p] = "returned"
    /\ upc' = [upc EXCEPT ![p] = "idle"]
    /\ uResult' = [uResult EXCEPT ![p] = ErrPending]
    /\ uRows' = [uRows EXCEPT ![p] = -1]
    /\ uReadVer' = [uReadVer EXCEPT ![p] = 0]
    /\ uStartVer' = [uStartVer EXCEPT ![p] = 0]
    /\ uimpl' = [uimpl EXCEPT ![p] = "gorm"]
    /\ uid' = [uid EXCEPT ![p] = 1]
    /\ uhash' = [uhash EXCEPT ![p] = "h1"]
    /\ UNCHANGED <<users, lockOwner, regVars, guardVars, bucketVars, chainVars, scanVars>>

----------------------------------------------------------------------------
(* Register *)

(* errors.Is(err, target): the repository's sentinels carry no Unwrap, so  *)
(* the test is identity of the error value.                                *)
ErrorsIs(err, target) == err = target

(* The sentinel of package errors the handler tests CreateUser's error     *)
(* against.                                                                *)
HandlerErrDuplicateEntry == "errors.ErrDuplicateEntry"

(* The sentinel of package errors the handler tests UpdatePassword's error *)
(* against.                                                                *)
HandlerErrUserNotFound == "errors.ErrUserNotFound"

(* err.Error() *)
ErrorText(err) ==
    IF err = ErrUserNotFound THEN "user not found"
    ELSE IF err = ErrDuplicateEntry THEN "duplicate user entry"
    ELSE "database internal error"

(* ChangePassword: the status it answers for UpdatePassword's result *)
ChangePasswordStatus(err) ==
    IF err = ErrNil THEN 200
    ELSE IF ErrorsIs(err, HandlerErrUserNotFound) THEN 404
    ELSE 500

(* ChangePassword: the text it answers for UpdatePassword's result *)
ChangePasswordBody(err) ==
    IF err = ErrNil THEN << "password updated" >>
    ELSE IF ErrorsIs(err, HandlerErrUserNotFound) THEN << "user not found or deactivated" >>
    ELSE IF ErrorsIs(err, ErrDatabaseInternal) THEN << "database error" >>
    ELSE << "password update failed", ErrorText(err) >>

FreeIds == {i \in Ids : ~Exists(i)}

(* AUTO_INCREMENT primary key *)
NextId == CHOOSE i \in FreeIds : \A j \in FreeIds : i <= j

(* A table without the unique indexes. *)
UniqueViolation_NoIndex(username, email) == FALSE

(* UNIQUE INDEX on username and on email *)
UniqueViolation(username, email) ==
    \E i \in Ids : Exists(i) /\ (users[i].Username = username \/ users[i].Email = email)

(* The text of the driver's error when a statement fails *)
RawDbError == "dial tcp 10.0.0.5:3306: connect: connection refused"

(* What a failed statement's error reads after the repository's           *)
(* wrapGormError: the text of ErrDatabaseInternal for the errors it maps,  *)
(* the original error for all others.                                      *)
DbFailureTexts == {"database internal error", RawDbError}

(* errors2.WrapGormError(err).Error() for the error of a failed existence  *)
(* query: fmt.Errorf("%w: %v", dao.ErrDatabaseInternal, rawErr), where     *)
(* rawErr is the repository's fmt.Errorf("%w: failed to check ...", err).  *)
WrapGormErrorText(cause, what) == << "database internal error", cause, what >>

(* respondError(c, code, msg) *)
RegisterFinish(r, status, msg) ==
    /\ rstatus' = [rstatus EXCEPT ![r] = status]
    /\ rbody' = [rbody EXCEPT ![r] = msg]
    /\ rpc' = [rpc EXCEPT ![r] = "done"]

(* The registrations that may still insert a row; a request is accepted   *)
(* only while the table has an id left for it.                             *)
InFlight == {x \in Registrars : rpc[x] \notin {"idle", "done"}}

(* c.BindAndValidate and validatePasswordStrength *)
RegisterBind(r) ==
    /\ rpc[r] = "idle"
    /\ Cardinality(FreeIds) > Cardinality(InFlight)
    /\ \E n \in Usernames, e \in Emails, valid \in BOOLEAN :
          /\ rname' = [rname EXCEPT ![r] = n]
          /\ remail' = [remail EXCEPT ![r] = e]
          /\ IF valid
               THEN rpc' = [rpc EXCEPT ![r] = "checkName"] /\ UNCHANGED <<rstatus, rbody>>
               ELSE RegisterFinish(r, 400, << "validation failed" >>)
    /\ UNCHANGED <<guardVars, bucketVars, chainVars, scanVars, users, lockOwner, updVars, rhashed>>

(* The handler without the check on the username. *)
RegisterIsUsernameExists_NoCheck(r) ==
    /\ rpc[r] = "checkName"
    /\ rpc' = [rpc EXCEPT ![r] = "checkEmail"]
    /\ UNCHANGED <<guardVars, bucketVars, chainVars, scanVars, users, lockOwner,
                   updVars, rname, remail, rhashed, rstatus, rbody>>

(* h.UserRepo.IsUsernameExists(req.Username) *)
RegisterIsUsernameExists(r) ==
    /\ rpc[r] = "checkName"
    /\ \/ \* the query fails
          \E cause \in DbFailureTexts :
             RegisterFinish(r, 500, WrapGormErrorText(cause, "failed to check username"))
       \/ /\ \E i \in Ids : ActiveRow(i) /\ users[i].Username = rname[r]
          /\ RegisterFinish(r, 409, << "username exists" >>)
       \/ /\ ~\E i \in Ids : ActiveRow(i) /\ users[i].Username = rname[r]
          /\ rpc' = [rpc EXCEPT ![r] = "checkEmail"]
          /\ UNCHANGED <<rstatus, rbody>>
    /\ UNCHANGED <<guardVars, bucketVars, chainVars, scanVars, users, lockOwner, updVars, rname, remail, rhashed>>

(* h.UserRepo.IsEmailExists(req.Email) *)
RegisterIsEmailExists(r) ==
    /\ rpc[r] = "checkEmail"
    /\ \/ \* the query fails
          \E cause \in DbFailureTexts :
             RegisterFinish(r, 500, WrapGormErrorText(cause, "failed to check email"))
       \/ /\ \E i \in Ids : ActiveRow(i) /\ users[i].Email = remail[r]
          /\ RegisterFinish(r, 409, << "email registered" >>)
       \/ /\ ~\E i \in Ids : ActiveRow(i) /\ users[i].Email = remail[r]
          /\ rpc' = [rpc EXCEPT ![r] = "hash"]
          /\ UNCHANGED <<rstatus, rbody>>
    /\ UNCHANGED <<guardVars, bucketVars, chainVars, scanVars, users, lockOwner, updVars, rname, remail, rhashed>>

(* bcrypt.GenerateFromPassword *)
RegisterHash(r) ==
    /\ rpc[r] = "hash"
    /\ \/ RegisterFinish(r, 500, << "password hashing failed" >>) /\ UNCHANGED rhashed
       \/ /\ rhashed' = [rhashed EXCEPT ![r] = "h0"]
          /\ rpc' = [rpc EXCEPT ![r] = "create"]
          /\ UNCHANGED <<rstatus, rbody>>
    /\ UNCHANGED <<guardVars, bucketVars, chainVars, scanVars, users, lockOwner, updVars, rname, remail>>

NewUser_VersionZero(r) == User(rname[r], remail[r], rhashed[r], TRUE, 0)

(* The entity Register builds: IsActive true, Version 1 *)
NewUser(r) == User(rname[r], remail[r], rhashed[r], TRUE, 1)

(* GormUserRepository.CreateUser: the error it returns *)
CreateUserError(r, dbFails) ==
    IF UniqueViolation(rname[r], remail[r]) THEN ErrDuplicateEntry
    ELSE IF dbFails THEN ErrDatabaseInternal
    ELSE ErrNil

(* h.UserRepo.CreateUser(user) and the handler's answer *)
RegisterCreateUser(r) ==
    /\ rpc[r] = "create"
    /\ \E dbFails \in BOOLEAN :
         LET err == CreateUserError(r, dbFails)
         IN  IF err = ErrNil
               THEN /\ users' = [users EXCEPT ![NextId] = NewUser(r)]
                    /\ RegisterFinish(r, 201, << "registered" >>)
               ELSE /\ UNCHANGED users
                    /\ IF ErrorsIs(err, HandlerErrDuplicateEntry)
                         THEN RegisterFinish(r, 409, << "user exists" >>)
                         ELSE RegisterFinish(r, 500, << "registration failed" >>)
    /\ UNCHANGED <<guardVars, bucketVars, chainVars, scanVars, lockOwner, updVars, rname, remail, rhashed>>

(* The next request on the same connection *)
RegisterReturn(r) ==
    /\ rpc[r] = "done"
    /\ rpc' = [rpc EXCEPT ![r] = "idle"]
    /\ rstatus' = [rstatus EXCEPT ![r] = 0]
    /\ rbody' = [rbody EXCEPT ![r] = << >>]
    /\ rhashed' = [rhashed EXCEPT ![r] = ""]
    /\ rname' = [rname EXCEPT ![r] = "alice"]
    /\ remail' = [remail EXCEPT ![r] = "a@x"]
    /\ UNCHANGED <<guardVars, bucketVars, chainVars, scanVars, users, lockOwner, updVars>>

Register(r) ==
    \/ RegisterBind(r)
    \/ RegisterIsUsernameExists(r)
    \/ RegisterIsEmailExists(r)
    \/ RegisterHash(r)
    \/ RegisterCreateUser(r)
    \/ RegisterReturn(r)

----------------------------------------------------------------------------
(* The timeout guard: TimeoutMiddleware under RecoveryMiddleware *)

MaxWrites    == 1
PanicValues  == {"boom", "bang"}
WorkStatuses == {200, 429}
NoPanic      == "nil"

Response(status, body) == [status |-> status, body |-> body]
NoResponse == Response(0, "")

(* utils.H{"code": 503000, "message": "service unavailable"} *)
TimeoutResponse == Response(503, "service unavailable")

Log(msg, arg) == [msg |-> msg, arg |-> arg]

GuardInit ==
    /\ prod \in BOOLEAN
    /\ parentDone = FALSE
    /\ gpc = "recovery"
    /\ wpc = "none"
    /\ done = FALSE
    /\ timerFired = FALSE
    /\ cancelled = FALSE
    /\ panicErr = NoPanic
    /\ wPanic = NoPanic
    /\ selected = "none"
    /\ readyAtSelect = {}
    /\ resp = NoResponse
    /\ aborted = FALSE
    /\ sent = NoResponse
    /\ logs = {}
    /\ n503 = 0
    /\ raised = NoPanic
    /\ wWrites = 0
    /\ doneBeforeDeadline = FALSE
    /\ respAtDone = NoResponse
    /\ latePanic = FALSE

(* RecoveryMiddleware: install the deferred recover, then ctx.Next(c) *)
RecoveryEnter ==
    /\ gpc = "recovery"
    /\ gpc' = "guard"
    /\ UNCHANGED <<storeVars, bucketVars, chainVars, scanVars, prod, parentDone, wpc, done, timerFired, cancelled, panicErr, wPanic, selected,
                   readyAtSelect, resp, aborted, sent, logs, n503, raised, wWrites,
                   doneBeforeDeadline, respAtDone, latePanic>>

(* TimeoutMiddleware up to the select: context.WithTimeout, make(chan),    *)
(* go func() { ... ctx.Next(timeoutCtx) }()                                *)
TimeoutMiddlewareStart ==
    /\ gpc = "guard"
    /\ gpc' = "select"
    /\ wpc' = "running"
    /\ UNCHANGED <<storeVars, bucketVars, chainVars, scanVars, prod, parentDone, done, timerFired, cancelled, panicErr, wPanic, selected,
                   readyAtSelect, resp, aborted, sent, logs, n503, raised, wWrites,
                   doneBeforeDeadline, respAtDone, latePanic>>

(* A goroutine parked in a select is woken by the first of its channels    *)
(* to become ready, and that channel's case is the one it runs.            *)
Wake(case) == IF gpc = "blocked" /\ selected = "none" THEN case ELSE selected

(* The deadline elapses without closing timeoutCtx.Done(). *)
DeadlineElapses_NoSignal ==
    /\ gpc \notin {"recovery", "guard"}
    /\ ~timerFired /\ ~cancelled /\ ~parentDone
    /\ timerFired' = TRUE
    /\ UNCHANGED <<storeVars, bucketVars, chainVars, scanVars, prod, parentDone, gpc, wpc, done, cancelled,
                   panicErr, wPanic, selected, readyAtSelect, resp, aborted, sent, logs,
                   n503, raised, wWrites, doneBeforeDeadline, respAtDone, latePanic>>

(* The deadline of timeoutCtx elapses: timeoutCtx.Done() is closed *)
DeadlineElapses ==
    /\ gpc \notin {"recovery", "guard"}
    /\ ~timerFired /\ ~cancelled /\ ~parentDone
    /\ timerFired' = TRUE
    /\ selected' = Wake("timeout")
    /\ UNCHANGED <<storeVars, bucketVars, chainVars, scanVars, prod, parentDone, gpc, wpc, done, cancelled, panicErr, wPanic,
                   readyAtSelect, resp, aborted, sent, logs, n503, raised, wWrites,
                   doneBeforeDeadline, respAtDone, latePanic>>

(* The enclosing context c is cancelled.  timeoutCtx is derived from c by   *)
(* context.WithTimeout(c, ...), so timeoutCtx.Done() is closed with it (at  *)
(* once if c was cancelled before the guard started) and the timer stops.  *)
ParentCancel ==
    /\ gpc # "sent"
    /\ ~parentDone
    /\ parentDone' = TRUE
    /\ selected' = Wake("timeout")
    /\ UNCHANGED <<storeVars, bucketVars, chainVars, scanVars, prod, gpc, wpc, done, timerFired, cancelled,
                   panicErr, wPanic, readyAtSelect, resp, aborted, sent, logs, n503,
                   raised, wWrites, doneBeforeDeadline, respAtDone, latePanic>>

ReadyCases == (IF timerFired \/ cancelled \/ parentDone THEN {"timeout"} ELSE {})
                 \cup (IF done THEN {"done"} ELSE {})

(* select { case <-timeoutCtx.Done(): ... case <-done: ... }               *)
(* With several cases ready Go picks one of them at random; with none the  *)
(* goroutine parks.                                                        *)
GuardSelect ==
    /\ gpc = "select"
    /\ readyAtSelect' = ReadyCases
    /\ IF ReadyCases = {}
         THEN gpc' = "blocked" /\ UNCHANGED selected
         ELSE gpc' = "branch" /\ selected' \in ReadyCases
    /\ UNCHANGED <<storeVars, bucketVars, chainVars, scanVars, prod, parentDone, wpc, done, timerFired, cancelled, panicErr, wPanic,
                   resp, aborted, sent, logs, n503, raised, wWrites,
                   doneBeforeDeadline, respAtDone, latePanic>>

Selected(case) == gpc \in {"branch", "blocked"} /\ selected = case

(* case <-timeoutCtx.Done(): AbortWithStatusJSON(503, ...), hlog.CtxWarnf, *)
(* then the deferred cancel()                                              *)
GuardTimeoutBranch ==
    /\ Selected("timeout")
    /\ aborted' = TRUE
    /\ resp' = TimeoutResponse
    /\ n503' = n503 + 1
    /\ logs' = logs \cup {Log("request timeout", "")}
    /\ cancelled' = TRUE
    /\ gpc' = "unwinding"
    /\ UNCHANGED <<storeVars, bucketVars, chainVars, scanVars, prod, parentDone, wpc, done, timerFired, panicErr, wPanic, selected,
                   readyAtSelect, sent, raised, wWrites,
                   doneBeforeDeadline, respAtDone, latePanic>>

(* The done branch followed by a second look at the deadline. *)
GuardDoneBranch_AlsoTimeout ==
    /\ Selected("done")
    /\ raised' = panicErr
    /\ cancelled' = TRUE
    /\ gpc' = "unwinding"
    /\ IF timerFired
         THEN /\ aborted' = TRUE
              /\ resp' = TimeoutResponse
              /\ n503' = n503 + 1
         ELSE UNCHANGED <<aborted, resp, n503>>
    /\ UNCHANGED <<storeVars, bucketVars, chainVars, scanVars, prod, parentDone, wpc, done, timerFired, panicErr, wPanic, selected,
                   readyAtSelect, sent, logs, wWrites,
                   doneBeforeDeadline, respAtDone, latePanic>>

(* case <-done: if panicErr != nil { panic(panicErr) }, then the deferred  *)
(* cancel()                                                                *)
GuardDoneBranch ==
    /\ Selected("done")
    /\ raised' = panicErr
    /\ cancelled' = TRUE
    /\ gpc' = "unwinding"
    /\ UNCHANGED <<storeVars, bucketVars, chainVars, scanVars, prod, parentDone, wpc, done, timerFired, panicErr, wPanic, selected,
                   readyAtSelect, resp, aborted, sent, logs, n503, wWrites,
                   doneBeforeDeadline, respAtDone, latePanic>>

(* The body RecoveryMiddleware answers a recovered panic with *)
RecoveryBody(err) == IF prod THEN "internal server error" ELSE err

(* RecoveryMiddleware's deferred function, run as the chain unwinds *)
RecoveryExit ==
    /\ gpc = "unwinding"
    /\ gpc' = "responded"
    /\ IF raised # NoPanic
         THEN /\ logs' = logs \cup {Log("[PANIC RECOVERED]", raised)}
              /\ aborted' = TRUE
              /\ resp' = Response(500, RecoveryBody(raised))
         ELSE UNCHANGED <<logs, aborted, resp>>
    /\ UNCHANGED <<storeVars, bucketVars, chainVars, scanVars, prod, parentDone, wpc, done, timerFired, cancelled, panicErr, wPanic, selected,
                   readyAtSelect, sent, n503, raised, wWrites,
                   doneBeforeDeadline, respAtDone, latePanic>>

(* The server writes ctx.Response to the connection once the chain         *)
(* has returned.                                                           *)
ServerSend ==
    /\ gpc = "responded"
    /\ gpc' = "sent"
    /\ sent' = resp
    /\ UNCHANGED <<storeVars, bucketVars, chainVars, scanVars, prod, parentDone, wpc, done, timerFired, cancelled, panicErr, wPanic, selected,
                   readyAtSelect, resp, aborted, logs, n503, raised, wWrites,
                   doneBeforeDeadline, respAtDone, latePanic>>

(* The work, ctx.Next(timeoutCtx): a downstream handler writes a response  *)
(* into the shared RequestContext (c.JSON, AbortWithStatusJSON).  Once the *)
(* server has sent the response the context belongs to the next request.   *)
WorkWrite ==
    /\ wpc = "running"
    /\ gpc # "sent"
    /\ wWrites < MaxWrites
    /\ wWrites' = wWrites + 1
    /\ \E st \in WorkStatuses : resp' = Response(st, "work")
    /\ UNCHANGED <<storeVars, bucketVars, chainVars, scanVars, prod, parentDone, gpc, wpc, done, timerFired, cancelled, panicErr, wPanic,
                   selected, readyAtSelect, aborted, sent, logs, n503, raised,
                   doneBeforeDeadline, respAtDone, latePanic>>

(* ctx.Next(timeoutCtx) returns *)
WorkReturn ==
    /\ wpc = "running"
    /\ wpc' = "closing"
    /\ UNCHANGED <<storeVars, bucketVars, chainVars, scanVars, prod, parentDone, gpc, done, timerFired, cancelled, panicErr, wPanic, selected,
                   readyAtSelect, resp, aborted, sent, logs, n503, raised, wWrites,
                   doneBeforeDeadline, respAtDone, latePanic>>

(* ctx.Next(timeoutCtx) panics *)
WorkPanic ==
    /\ wpc = "running"
    /\ wpc' = "recovering"
    /\ \E v \in PanicValues : wPanic' = v
    /\ latePanic' = (n503 > 0)
    /\ UNCHANGED <<storeVars, bucketVars, chainVars, scanVars, prod, parentDone, gpc, done, timerFired, cancelled, panicErr, selected,
                   readyAtSelect, resp, aborted, sent, logs, n503, raised, wWrites,
                   doneBeforeDeadline, respAtDone>>

(* The worker whose close(done) follows ctx.Next instead of being          *)
(* deferred: a panic is recorded and done is never closed.                 *)
WorkerRecover_NoClose ==
    /\ wpc = "recovering"
    /\ panicErr' = wPanic
    /\ wpc' = "exited"
    /\ UNCHANGED <<storeVars, bucketVars, chainVars, scanVars, prod, parentDone, gpc, done, timerFired, cancelled, wPanic, selected,
                   readyAtSelect, resp, aborted, sent, logs, n503, raised, wWrites,
                   doneBeforeDeadline, respAtDone, latePanic>>

(* The worker's deferred function: if r := recover(); r != nil { panicErr = r } *)
WorkerRecover ==
    /\ wpc = "recovering"
    /\ panicErr' = wPanic
    /\ wpc' = "closing"
    /\ UNCHANGED <<storeVars, bucketVars, chainVars, scanVars, prod, parentDone, gpc, done, timerFired, cancelled, wPanic, selected,
                   readyAtSelect, resp, aborted, sent, logs, n503, raised, wWrites,
                   doneBeforeDeadline, respAtDone, latePanic>>

(* The worker's deferred function: close(done) *)
WorkerCloseDone ==
    /\ wpc = "closing"
    /\ done' = TRUE
    /\ wpc' = "exited"
    /\ selected' = Wake("done")
    /\ doneBeforeDeadline' = ~timerFired
    /\ respAtDone' = resp
    /\ UNCHANGED <<storeVars, bucketVars, chainVars, scanVars, prod, parentDone, gpc, timerFired, cancelled, panicErr, wPanic,
                   readyAtSelect, resp, aborted, sent, logs, n503, raised, wWrites,
                   latePanic>>

GuardNext ==
    \/ RecoveryEnter
    \/ TimeoutMiddlewareStart
    \/ DeadlineElapses
    \/ ParentCancel
    \/ GuardSelect
    \/ GuardTimeoutBranch
    \/ GuardDoneBranch
    \/ RecoveryExit
    \/ ServerSend
    \/ WorkWrite
    \/ WorkReturn
    \/ WorkPanic
    \/ WorkerRecover
    \/ WorkerCloseDone

----------------------------------------------------------------------------
(* The token bucket: NewTokenBucket, its refill goroutine, TokenBucket.Allow *)
(* and the handler RateLimitMiddleware returns                              *)

MaxRate  == 2
MaxTicks == 3
MaxAllow == 4

Rates     == 0 .. MaxRate
Intervals == {0, 1}
Requests  == {"q1", "q2"}

(* make(chan struct{}, rate): the number of elements the channel buffers.  *)
(* With rate = 0 the channel is unbuffered and a send needs a receiver     *)
(* that is parked on it.                                                   *)
ChanCap_AtLeastOne == IF capacity = 0 THEN 1 ELSE capacity

ChanCap == capacity

(* A receiver parked on tb.tokens.  Allow receives inside a select with a  *)
(* default case, so it never parks.                                        *)
ParkedReceivers == {q \in Requests : apc[q] = "parked"}

(* The latest operations on the bucket, the newest last *)
Remember(op) ==
    LET s == Append(lastOps, op)
    IN  IF Len(s) > 3 THEN Tail(s) ELSE s

(* A limiter that is created full. *)
InitialTokens_Full == capacity

(* tokens: make(chan struct{}, rate): a new channel holds no element, and  *)
(* NewTokenBucket sends none.                                              *)
InitialTokens == 0

(* tb := &TokenBucket{...}; go func() {...}(); return tb                   *)
BucketInit ==
    /\ capacity \in Rates
    /\ rate \in Intervals
    /\ tokens = InitialTokens
    /\ tpc = "start"
    /\ crashed = FALSE
    /\ apc = [q \in Requests |-> "idle"]
    /\ allowed = [q \in Requests |-> FALSE]
    /\ astatus = [q \in Requests |-> 0]
    /\ nBuckets = 1
    /\ nRefillers = 1
    /\ nAllow = 0
    /\ nTicks = 0
    /\ lastOps = <<>>
    /\ kAtTick = 0
    /\ callsSince = 0
    /\ grantsSince = 0
    /\ nGranted = 0
    /\ nAdded = 0

(* ticker := time.NewTicker(tb.rate), which panics for a duration <= 0;    *)
(* the goroutine has no recover, so the panic ends the process.            *)
RefillStart ==
    /\ ~crashed
    /\ tpc = "start"
    /\ IF rate <= 0
         THEN tpc' = "panicked" /\ crashed' = TRUE
         ELSE tpc' = "waiting" /\ UNCHANGED crashed
    /\ UNCHANGED <<storeVars, guardVars, chainVars, scanVars, nGranted, nAdded, capacity, rate, tokens, apc, allowed, astatus,
                   nBuckets, nRefillers, nAllow, nTicks, lastOps, kAtTick,
                   callsSince, grantsSince>>

(* for range ticker.C: the next tick is received *)
TickerFires ==
    /\ ~crashed
    /\ tpc = "waiting"
    /\ nTicks < MaxTicks
    /\ nTicks' = nTicks + 1
    /\ tpc' = "select"
    /\ UNCHANGED <<storeVars, guardVars, chainVars, scanVars, nGranted, nAdded, capacity, rate, tokens, crashed, apc, allowed,
                   astatus, nBuckets, nRefillers, nAllow, lastOps, kAtTick,
                   callsSince, grantsSince>>

(* The refill with a plain send, tb.tokens <- struct{}{}: it parks while   *)
(* the channel is full.                                                    *)
RefillSelect_Blocking ==
    /\ ~crashed
    /\ tpc = "select"
    /\ IF tokens < ChanCap
         THEN tokens' = tokens + 1 /\ tpc' = "waiting"
         ELSE tokens' = tokens /\ tpc' = "parked"
    /\ lastOps' = Remember("tick")
    /\ kAtTick' = tokens'
    /\ callsSince' = 0
    /\ grantsSince' = 0
    /\ nAdded' = nAdded + (tokens' - tokens)    \* 1 if the send case ran
    /\ UNCHANGED <<storeVars, guardVars, chainVars, scanVars, nGranted, capacity, rate, crashed, apc, allowed, astatus,
                   nBuckets, nRefillers, nAllow, nTicks>>

(* The refill that sends whether or not the channel has room. *)
RefillSelect_Unbounded ==
    /\ ~crashed
    /\ tpc = "select"
    /\ tokens' = tokens + 1
    /\ tpc' = "waiting"
    /\ lastOps' = Remember("tick")
    /\ kAtTick' = tokens'
    /\ callsSince' = 0
    /\ grantsSince' = 0
    /\ nAdded' = nAdded + 1
    /\ UNCHANGED <<storeVars, guardVars, chainVars, scanVars, nGranted, capacity, rate, crashed, apc, allowed, astatus,
                   nBuckets, nRefillers, nAllow, nTicks>>

(* The refill that drops every tick. *)
RefillSelect_Dropped ==
    /\ ~crashed
    /\ tpc = "select"
    /\ tokens' = tokens
    /\ tpc' = "waiting"
    /\ lastOps' = Remember("tick")
    /\ kAtTick' = tokens'
    /\ callsSince' = 0
    /\ grantsSince' = 0
    /\ nAdded' = nAdded
    /\ UNCHANGED <<storeVars, guardVars, chainVars, scanVars, nGranted, capacity, rate, crashed, apc, allowed, astatus,
                   nBuckets, nRefillers, nAllow, nTicks>>

(* select { case tb.tokens <- struct{}{}: default: }                       *)
RefillSelect ==
    /\ ~crashed
    /\ tpc = "select"
    /\ IF tokens < ChanCap \/ ParkedReceivers # {}
         THEN tokens' = tokens + 1
         ELSE tokens' = tokens
    /\ tpc' = "waiting"
    /\ lastOps' = Remember("tick")
    /\ kAtTick' = tokens'
    /\ callsSince' = 0
    /\ grantsSince' = 0
    /\ nAdded' = nAdded + (tokens' - tokens)    \* 1 if the send case ran
    /\ UNCHANGED <<storeVars, guardVars, chainVars, scanVars, nGranted, capacity, rate, crashed, apc, allowed, astatus,
                   nBuckets, nRefillers, nAllow, nTicks>>

(* The handler that constructs its limiter for every request. *)
RateLimitMiddlewareEnter_NewBucket(q) ==
    /\ ~crashed
    /\ apc[q] = "idle"
    /\ nAllow < MaxAllow
    /\ nAllow' = nAllow + 1
    /\ nBuckets' = nBuckets + 1
    /\ nRefillers' = nRefillers + 1
    /\ apc' = [apc EXCEPT ![q] = "allow"]
    /\ UNCHANGED <<storeVars, guardVars, chainVars, scanVars, nGranted, nAdded, capacity, rate, tokens, tpc, crashed, allowed,
                   astatus, nTicks, lastOps, kAtTick, callsSince,
                   grantsSince>>

(* A request enters the handler RateLimitMiddleware returned and calls     *)
(* limiter.Allow() on the limiter the closure captured.                    *)
RateLimitMiddlewareEnter(q) ==
    /\ ~crashed
    /\ apc[q] = "idle"
    /\ nAllow < MaxAllow
    /\ nAllow' = nAllow + 1
    /\ apc' = [apc EXCEPT ![q] = "allow"]
    /\ UNCHANGED <<storeVars, guardVars, chainVars, scanVars, nGranted, nAdded, capacity, rate, tokens, tpc, crashed, allowed,
                   astatus, nBuckets, nRefillers, nTicks, lastOps, kAtTick, callsSince,
                   grantsSince>>

(* Allow with a plain receive, <-tb.tokens: it parks while the channel is  *)
(* empty.                                                                  *)
Allow_Blocking(q) ==
    /\ ~crashed
    /\ apc[q] = "allow"
    /\ IF tokens >= 1
         THEN /\ tokens' = tokens - 1
              /\ allowed' = [allowed EXCEPT ![q] = TRUE]
              /\ apc' = [apc EXCEPT ![q] = "decided"]
              /\ lastOps' = Remember("grant")
              /\ grantsSince' = grantsSince + 1
              /\ callsSince' = callsSince + 1
         ELSE /\ apc' = [apc EXCEPT ![q] = "parked"]
              /\ UNCHANGED <<tokens, allowed, lastOps, grantsSince, callsSince>>
    /\ nGranted' = nGranted + (IF tokens >= 1 THEN 1 ELSE 0)
    /\ UNCHANGED <<storeVars, guardVars, chainVars, scanVars, nAdded, capacity, rate, tpc, crashed, astatus,
                   nBuckets, nRefillers, nAllow, nTicks, kAtTick>>

(* Allow that looks at the channel without receiving from it. *)
Allow_NoReceive(q) ==
    /\ ~crashed
    /\ apc[q] = "allow"
    /\ tokens' = tokens
    /\ allowed' = [allowed EXCEPT ![q] = (tokens >= 1)]
    /\ lastOps' = Remember(IF tokens >= 1 THEN "grant" ELSE "deny")
    /\ grantsSince' = grantsSince + (IF tokens >= 1 THEN 1 ELSE 0)
    /\ callsSince' = callsSince + 1
    /\ apc' = [apc EXCEPT ![q] = "decided"]
    /\ nGranted' = nGranted + (IF allowed'[q] THEN 1 ELSE 0)
    /\ UNCHANGED <<storeVars, guardVars, chainVars, scanVars, nAdded, capacity, rate, tpc, crashed, astatus,
                   nBuckets, nRefillers, nAllow, nTicks, kAtTick>>

(* select { case <-tb.tokens: return true; default: return false }         *)
(* The runtime performs the receive under the channel's lock, so the test  *)
(* and the removal are one step.                                           *)
Allow(q) ==
    /\ ~crashed
    /\ apc[q] = "allow"
    /\ IF tokens >= 1
         THEN /\ tokens' = tokens - 1
              /\ allowed' = [allowed EXCEPT ![q] = TRUE]
              /\ lastOps' = Remember("grant")
              /\ grantsSince' = grantsSince + 1
         ELSE /\ tokens' = tokens
              /\ allowed' = [allowed EXCEPT ![q] = FALSE]
              /\ lastOps' = Remember("deny")
              /\ grantsSince' = grantsSince
    /\ callsSince' = callsSince + 1
    /\ apc' = [apc EXCEPT ![q] = "decided"]
    /\ nGranted' = nGranted + (IF allowed'[q] THEN 1 ELSE 0)
    /\ UNCHANGED <<storeVars, guardVars, chainVars, scanVars, nAdded, capacity, rate, tpc, crashed, astatus,
                   nBuckets, nRefillers, nAllow, nTicks, kAtTick>>

(* if !limiter.Allow() { hlog...; ctx.AbortWithStatusJSON(429, ...); return } *)
(* ctx.Next(c)                                                             *)
RateLimitMiddlewareFinish(q) ==
    /\ ~crashed
    /\ apc[q] = "decided"
    /\ IF allowed[q]
         THEN apc' = [apc EXCEPT ![q] = "next"] /\ UNCHANGED astatus
         ELSE /\ apc' = [apc EXCEPT ![q] = "aborted"]
              /\ astatus' = [astatus EXCEPT ![q] = 429]
    /\ UNCHANGED <<storeVars, guardVars, chainVars, scanVars, nGranted, nAdded, capacity, rate, tokens, tpc, crashed, allowed,
                   nBuckets, nRefillers, nAllow, nTicks, lastOps, kAtTick, callsSince,
                   grantsSince>>

(* Components: []ComponentStatus{ //checkDatabase(), //checkRedis(),       *)
(* //checkExternalService() }: every check is commented out.               *)
Components == << >>

(* hasCriticalErrors(components) *)
HasCriticalErrors(components) ==
    \E i \in 1 .. Len(components) :
        \/ components[i].IsCore /\ components[i].Status # "ok"
        \/ components[i].Status = "critical"

(* GET /health: ctx.Next(c) reaches HealthCheckHandler.AdvancedHealthCheck, *)
(* which answers 503 if a component is in error and 200 otherwise.         *)
AdvancedHealthCheck(q) ==
    /\ ~crashed
    /\ apc[q] = "next"
    /\ astatus' = [astatus EXCEPT ![q] =
                      IF HasCriticalErrors(Components) THEN 503 ELSE 200]
    /\ apc' = [apc EXCEPT ![q] = "handled"]
    /\ UNCHANGED <<storeVars, guardVars, chainVars, scanVars, nGranted, nAdded, capacity, rate, tokens, tpc, crashed, allowed,
                   nBuckets, nRefillers, nAllow, nTicks, lastOps, kAtTick, callsSince,
                   grantsSince>>

(* The handler returns and the request is over. *)
RateLimitMiddlewareReturn(q) ==
    /\ ~crashed
    /\ apc[q] \in {"next", "handled", "aborted"}
    /\ apc' = [apc EXCEPT ![q] = "idle"]
    /\ allowed' = [allowed EXCEPT ![q] = FALSE]
    /\ astatus' = [astatus EXCEPT ![q] = 0]
    /\ UNCHANGED <<storeVars, guardVars, chainVars, scanVars, nGranted, nAdded, capacity, rate, tokens, tpc, crashed,
                   nBuckets, nRefillers, nAllow, nTicks, lastOps, kAtTick, callsSince,
                   grantsSince>>

BucketNext ==
    \/ RefillStart
    \/ TickerFires
    \/ RefillSelect
    \/ \E q \in Requests : RateLimitMiddlewareEnter(q)
    \/ \E q \in Requests : Allow(q)
    \/ \E q \in Requests : RateLimitMiddlewareFinish(q)
    \/ \E q \in Requests : AdvancedHealthCheck(q)
    \/ \E q \in Requests : RateLimitMiddlewareReturn(q)

----------------------------------------------------------------------------
(* The handler chain: h.Use(...) in RegisterAPIs, run by ctx.Next          *)

(* The global middleware in registration order, then the route's handler.  *)
(* ctx.handlers[i] is Chain[i + 1].                                        *)
Chain == << "RecoveryMiddleware", "LoggerMiddleware", "SecurityCheckMiddleware",
            "TimeoutMiddleware", "CORSMiddleware", "RateLimitMiddleware",
            "Handler" >>

HandlerAt(i) == Chain[i + 1]

(* ctx.Abort() sets ctx.index to this value, past the end of any chain. *)
AbortIndex == 63

Tasks == {"request", "worker"}

(* A running ctx.Next: pc is "inc" before it reads ctx.index for           *)
(* ctx.index++, "incw" when it holds the value read in v, "test" at the    *)
(* loop condition.                                                         *)
NextFrame(pc, v) == [kind |-> "Next", pc |-> pc, v |-> v]

(* A running handler, ctx.handlers[i] *)
HandlerFrame(i, pc) == [kind |-> "handler", pc |-> pc, v |-> i]

Top(t) == frames[t][Len(frames[t])]

Pop(st) == SubSeq(st, 1, Len(st) - 1)

SetTop(st, f) == [st EXCEPT ![Len(st)] = f]

(* Goroutine t is in handler name at position pc *)
Running(t, name, pc) ==
    /\ frames[t] # << >>
    /\ Top(t).kind = "handler"
    /\ HandlerAt(Top(t).v) = name
    /\ Top(t).pc = pc

(* The running handler calls ctx.Next(c) and resumes after it *)
CallNext(st) == Append(SetTop(st, HandlerFrame(st[Len(st)].v, "after")),
                       NextFrame("inc", 0))

Event(stage, t, ok) == [stage |-> stage, task |-> t, ok |-> ok, guarded |-> spawned]

(* The server has reset ctx (index = -1) and calls ctx.Next(c).            *)
ChainInit ==
    /\ index = -1
    /\ frames = [t \in Tasks |-> IF t = "request" THEN << NextFrame("inc", 0) >> ELSE << >>]
    /\ spawned = FALSE
    /\ timedOut = FALSE
    /\ stageLog = << >>

(* ctx.index++ is a read followed by a write; no lock guards ctx.index.    *)
NextIncrementRead(t) ==
    /\ frames[t] # << >>
    /\ Top(t).kind = "Next" /\ Top(t).pc = "inc"
    /\ frames' = [frames EXCEPT ![t] = SetTop(@, NextFrame("incw", index))]
    /\ UNCHANGED <<storeVars, guardVars, bucketVars, scanVars,
                   index, spawned, timedOut, stageLog>>

NextIncrementWrite(t) ==
    /\ frames[t] # << >>
    /\ Top(t).kind = "Next" /\ Top(t).pc = "incw"
    /\ index' = Top(t).v + 1
    /\ frames' = [frames EXCEPT ![t] = SetTop(@, NextFrame("test", 0))]
    /\ UNCHANGED <<storeVars, guardVars, bucketVars, scanVars,
                   spawned, timedOut, stageLog>>

(* for ctx.index < len(ctx.handlers) { ctx.handlers[ctx.index](c, ctx); ... } *)
NextDispatch(t) ==
    /\ frames[t] # << >>
    /\ Top(t).kind = "Next" /\ Top(t).pc = "test"
    /\ IF index < Len(Chain)
         THEN frames' = [frames EXCEPT ![t] =
                            Append(SetTop(@, NextFrame("inc", 0)),
                                   HandlerFrame(index, "body"))]
         ELSE frames' = [frames EXCEPT ![t] = Pop(@)]
    /\ UNCHANGED <<storeVars, guardVars, bucketVars, scanVars,
                   index, spawned, timedOut, stageLog>>

(* A handler's ctx.Next(c) has returned and the handler returns. *)
HandlerReturn(t) ==
    /\ frames[t] # << >>
    /\ Top(t).kind = "handler" /\ Top(t).pc = "after"
    /\ frames' = [frames EXCEPT ![t] = Pop(@)]
    /\ UNCHANGED <<storeVars, guardVars, bucketVars, scanVars,
                   index, spawned, timedOut, stageLog>>

(* RecoveryMiddleware and LoggerMiddleware: ctx.Next(c) *)
RecoveryLoggerStage(t) ==
    /\ \/ Running(t, "RecoveryMiddleware", "body")
       \/ Running(t, "LoggerMiddleware", "body")
    /\ frames' = [frames EXCEPT ![t] = CallNext(@)]
    /\ UNCHANGED <<storeVars, guardVars, bucketVars, scanVars,
                   index, spawned, timedOut, stageLog>>

(* SecurityCheckMiddleware: a failed check answers through                 *)
(* securityResponse (AbortWithStatusJSON) and returns, otherwise           *)
(* ctx.Next(c).                                                            *)
SecurityCheckStage(t) ==
    /\ Running(t, "SecurityCheckMiddleware", "body")
    /\ \E pass \in BOOLEAN :
          /\ stageLog' = Append(stageLog, Event("scanner", t, pass))
          /\ IF pass
               THEN frames' = [frames EXCEPT ![t] = CallNext(@)] /\ UNCHANGED index
               ELSE frames' = [frames EXCEPT ![t] = Pop(@)] /\ index' = AbortIndex
    /\ UNCHANGED <<storeVars, guardVars, bucketVars, scanVars, spawned, timedOut>>

(* TimeoutMiddleware: go func() { ...; ctx.Next(timeoutCtx) }(), then the  *)
(* select.                                                                 *)
TimeoutStageSpawn ==
    /\ Running("request", "TimeoutMiddleware", "body")
    /\ frames' = [frames EXCEPT
                     !["request"] = SetTop(@, HandlerFrame(Top("request").v, "select")),
                     !["worker"] = << NextFrame("inc", 0) >>]
    /\ spawned' = TRUE
    /\ UNCHANGED <<storeVars, guardVars, bucketVars, scanVars, index, timedOut, stageLog>>

(* case <-done: the worker's ctx.Next has returned *)
TimeoutStageDone ==
    /\ Running("request", "TimeoutMiddleware", "select")
    /\ frames["worker"] = << >>
    /\ frames' = [frames EXCEPT !["request"] = Pop(@)]
    /\ UNCHANGED <<storeVars, guardVars, bucketVars, scanVars,
                   index, spawned, timedOut, stageLog>>

(* case <-timeoutCtx.Done(): ctx.AbortWithStatusJSON(503, ...) *)
TimeoutStageAbort ==
    /\ Running("request", "TimeoutMiddleware", "select")
    /\ index' = AbortIndex
    /\ timedOut' = TRUE
    /\ frames' = [frames EXCEPT !["request"] = Pop(@)]
    /\ UNCHANGED <<storeVars, guardVars, bucketVars, scanVars, spawned, stageLog>>

(* CORSMiddleware (cors.New): sets headers and returns, or aborts a        *)
(* request from an origin that is not allowed.                             *)
CORSStage(t) ==
    /\ Running(t, "CORSMiddleware", "body")
    /\ frames' = [frames EXCEPT ![t] = Pop(@)]
    /\ \E allowedOrigin \in BOOLEAN :
          IF allowedOrigin THEN UNCHANGED index ELSE index' = AbortIndex
    /\ UNCHANGED <<storeVars, guardVars, bucketVars, scanVars,
                   spawned, timedOut, stageLog>>

(* RateLimitMiddleware: if !limiter.Allow() { AbortWithStatusJSON(429);    *)
(* return }; ctx.Next(c)                                                   *)
RateLimitStage(t) ==
    /\ Running(t, "RateLimitMiddleware", "body")
    /\ \E granted \in BOOLEAN :
          /\ stageLog' = Append(stageLog, Event("limiter", t, granted))
          /\ IF granted
               THEN frames' = [frames EXCEPT ![t] = CallNext(@)] /\ UNCHANGED index
               ELSE frames' = [frames EXCEPT ![t] = Pop(@)] /\ index' = AbortIndex
    /\ UNCHANGED <<storeVars, guardVars, bucketVars, scanVars, spawned, timedOut>>

(* The route's handler (AdvancedHealthCheck, Register, ...) runs and       *)
(* returns.                                                                *)
HandlerStage(t) ==
    /\ Running(t, "Handler", "body")
    /\ stageLog' = Append(stageLog, Event("handler", t, TRUE))
    /\ frames' = [frames EXCEPT ![t] = Pop(@)]
    /\ UNCHANGED <<storeVars, guardVars, bucketVars, scanVars, index, spawned, timedOut>>

ChainNext ==
    \/ \E t \in Tasks : NextIncrementRead(t)
    \/ \E t \in Tasks : NextIncrementWrite(t)
    \/ \E t \in Tasks : NextDispatch(t)
    \/ \E t \in Tasks : HandlerReturn(t)
    \/ \E t \in Tasks : RecoveryLoggerStage(t)
    \/ \E t \in Tasks : SecurityCheckStage(t)
    \/ TimeoutStageSpawn
    \/ TimeoutStageDone
    \/ TimeoutStageAbort
    \/ \E t \in Tasks : CORSStage(t)
    \/ \E t \in Tasks : RateLimitStage(t)
    \/ \E t \in Tasks : HandlerStage(t)

----------------------------------------------------------------------------
(* The content scanner: hasMaliciousContent and the two patterns           *)
(* SecurityCheckMiddleware compiles.  A string is the sequence of its      *)
(* characters.                                                             *)

MaxQuery == 2
MaxForm  == 1

Scans == {"s1", "s2"}

S_q         == << "q" >>
S_hello     == << "h","e","l","l","o"," ","w","o","r","l","d" >>
S_upper     == << "1"," ","U","N","I","O","N"," ","S","E","L","E","C","T"," ",
                  "*"," ","F","R","O","M"," ","u","s","e","r","s" >>
S_lower     == << "1"," ","u","n","i","o","n" >>
S_selection == << "s","e","l","e","c","t","i","o","n" >>
S_script    == << "<","s","c","r","i","p","t",">" >>
S_onerror   == << "o","n","e","r","r","o","r","=" >>

Param(key, value) == [key |-> key, value |-> value]

P_clean  == Param(S_q, S_hello)
P_upper  == Param(S_q, S_upper)
P_lower  == Param(S_q, S_lower)
P_xssKey == Param(S_onerror, S_q)
P_script == Param(S_selection, S_script)

Params == {P_clean, P_upper, P_lower, P_xssKey, P_script}

ListsUpTo(S, n) == UNION {[1 .. k -> S] : k \in 0 .. n}

(* What each request carries.  The second request is a small one. *)
QueryLists(s) == IF s = "s1" THEN ListsUpTo(Params, MaxQuery)
                 ELSE {<< >>, << P_clean >>, << P_lower >>}

FormLists(s) == IF s = "s1" THEN ListsUpTo(Params, MaxForm) ELSE {<< >>}

(* The characters \b counts as word characters: [0-9A-Za-z_] *)
WordChars ==
    { "a","b","c","d","e","f","g","h","i","j","k","l","m","n","o","p","q","r",
      "s","t","u","v","w","x","y","z",
      "A","B","C","D","E","F","G","H","I","J","K","L","M","N","O","P","Q","R",
      "S","T","U","V","W","X","Y","Z",
      "0","1","2","3","4","5","6","7","8","9","_" }

IsWord(s, i) == i >= 1 /\ i <= Len(s) /\ s[i] \in WordChars

(* \b between s[i-1] and s[i] *)
Boundary(s, i) == IsWord(s, i - 1) # IsWord(s, i)

(* The literal w occurs in s starting at position i *)
OccursAt(s, w, i) ==
    /\ i + Len(w) - 1 <= Len(s)
    /\ \A k \in 1 .. Len(w) : s[i + k - 1] = w[k]

Contains(s, w) == \E i \in 1 .. Len(s) : OccursAt(s, w, i)

SqlKeywords ==
    { << "u","n","i","o","n" >>, << "s","e","l","e","c","t" >>,
      << "d","r","o","p" >>, << "d","e","l","e","t","e" >>,
      << "i","n","s","e","r","t" >> }

(* \b(union|select|drop|delete|insert)\b , case-sensitive *)
SqlMatch(s) ==
    \E w \in SqlKeywords, i \in 1 .. Len(s) :
        OccursAt(s, w, i) /\ Boundary(s, i) /\ Boundary(s, i + Len(w))

(* <script.*?>|<\/script>|alert\(|onerror=                                 *)
XssMatch(s) ==
    \/ \E i \in 1 .. Len(s) :
          /\ OccursAt(s, << "<","s","c","r","i","p","t" >>, i)
          /\ \E j \in (i + 7) .. Len(s) :
                /\ s[j] = ">"
                /\ \A k \in (i + 7) .. (j - 1) : s[k] # "\n"
    \/ Contains(s, << "<","/","s","c","r","i","p","t",">" >>)
    \/ Contains(s, << "a","l","e","r","t","(" >>)
    \/ Contains(s, S_onerror)

(* check := func(data []byte) bool { return xss.Match(data) || sql.Match(data) } *)
Check(data) == XssMatch(data) \/ SqlMatch(data)

(* One flag shared by all calls. *)
FoundSeen_Shared(s) == IF \E r \in Scans : found[r] = 1 THEN 1 ELSE 0

(* atomic.LoadInt32(&found): found is a local of the call *)
FoundSeen(s) == found[s]

(* The visitor that looks at keys only. *)
Visitor_KeysOnly(s, p) ==
    IF FoundSeen(s) = 1
      THEN [found |-> found[s], checks |-> 0]
      ELSE [found |-> IF Check(p.key) THEN 1 ELSE found[s], checks |-> 1]

(* The visitor without the test of found. *)
Visitor_NoSkip(s, p) ==
    [found  |-> IF Check(p.key) \/ Check(p.value) THEN 1 ELSE found[s],
     checks |-> IF Check(p.key) THEN 1 ELSE 2]

(* visitor := func(key, value []byte): what it leaves in found and how     *)
(* often it invoked check (check(value) only if check(key) was false).     *)
Visitor(s, p) ==
    IF FoundSeen(s) = 1
      THEN [found |-> found[s], checks |-> 0]
      ELSE [found  |-> IF Check(p.key) \/ Check(p.value) THEN 1 ELSE found[s],
            checks |-> IF Check(p.key) THEN 1 ELSE 2]

ScanInit ==
    /\ sQuery = [s \in Scans |-> << >>]
    /\ sForm = [s \in Scans |-> << >>]
    /\ spc = [s \in Scans |-> "idle"]
    /\ sPos = [s \in Scans |-> 0]
    /\ found = [s \in Scans |-> 0]
    /\ nCheck = [s \in Scans |-> 0]
    /\ sResult = [s \in Scans |-> FALSE]

(* SecurityCheckMiddleware calls hasMaliciousContent(ctx, xssRegex,        *)
(* sqlInjectRegex): var found int32                                        *)
ScanCall(s) ==
    /\ spc[s] = "idle"
    /\ \E q \in QueryLists(s), f \in FormLists(s) :
          /\ sQuery' = [sQuery EXCEPT ![s] = q]
          /\ sForm' = [sForm EXCEPT ![s] = f]
    /\ spc' = [spc EXCEPT ![s] = "query"]
    /\ UNCHANGED <<storeVars, guardVars, bucketVars, chainVars,
                   sPos, found, nCheck, sResult>>

(* The list VisitAll is walking *)
Visiting(s) == IF spc[s] = "query" THEN sQuery[s] ELSE sForm[s]

(* VisitAll hands the next parameter to the visitor *)
Visit(s) ==
    /\ spc[s] \in {"query", "form"}
    /\ sPos[s] < Len(Visiting(s))
    /\ LET v == Visitor(s, Visiting(s)[sPos[s] + 1])
       IN  /\ found' = [found EXCEPT ![s] = v.found]
           /\ nCheck' = [nCheck EXCEPT ![s] = @ + v.checks]
    /\ sPos' = [sPos EXCEPT ![s] = @ + 1]
    /\ UNCHANGED <<storeVars, guardVars, bucketVars, chainVars,
                   sQuery, sForm, spc, sResult>>

(* ctx.QueryArgs().VisitAll(visitor) is over:                              *)
(* if atomic.LoadInt32(&found) == 1 { return true }                        *)
QueryVisited(s) ==
    /\ spc[s] = "query"
    /\ sPos[s] = Len(sQuery[s])
    /\ IF FoundSeen(s) = 1
         THEN /\ sResult' = [sResult EXCEPT ![s] = TRUE]
              /\ spc' = [spc EXCEPT ![s] = "done"]
              /\ UNCHANGED sPos
         ELSE /\ spc' = [spc EXCEPT ![s] = "form"]
              /\ sPos' = [sPos EXCEPT ![s] = 0]
              /\ UNCHANGED sResult
    /\ UNCHANGED <<storeVars, guardVars, bucketVars, chainVars,
                   sQuery, sForm, found, nCheck>>

(* ctx.PostArgs().VisitAll(visitor) is over:                               *)
(* return atomic.LoadInt32(&found) == 1                                    *)
FormVisited(s) ==
    /\ spc[s] = "form"
    /\ sPos[s] = Len(sForm[s])
    /\ sResult' = [sResult EXCEPT ![s] = (FoundSeen(s) = 1)]
    /\ spc' = [spc EXCEPT ![s] = "done"]
    /\ UNCHANGED <<storeVars, guardVars, bucketVars, chainVars,
                   sQuery, sForm, sPos, found, nCheck>>

(* The request is over; the next one starts from a fresh call. *)
ScanReturn(s) ==
    /\ spc[s] = "done"
    /\ spc' = [spc EXCEPT ![s] = "idle"]
    /\ sQuery' = [sQuery EXCEPT ![s] = << >>]
    /\ sForm' = [sForm EXCEPT ![s] = << >>]
    /\ sPos' = [sPos EXCEPT ![s] = 0]
    /\ found' = [found EXCEPT ![s] = 0]
    /\ nCheck' = [nCheck EXCEPT ![s] = 0]
    /\ sResult' = [sResult EXCEPT ![s] = FALSE]
    /\ UNCHANGED <<storeVars, guardVars, bucketVars, chainVars>>

ScanNext ==
    \/ \E s \in Scans : ScanCall(s)
    \/ \E s \in Scans : Visit(s)
    \/ \E s \in Scans : QueryVisited(s)
    \/ \E s \in Scans : FormVisited(s)
    \/ \E s \in Scans : ScanReturn(s)

----------------------------------------------------------------------------
(* The credential store on its own *)

(* The table holds alice, active or deactivated. *)
UsersInit ==
    \E a \in BOOLEAN :
        users = [i \in Ids |-> IF i = 1
                                 THEN User("alice", "a@x", "h0", a, 1)
                                 ELSE NoRow]

(* No call is in progress. *)
CallsInit ==
    /\ lockOwner = [i \in Ids |-> NoOwner]
    /\ upc = [p \in Updaters |-> "idle"]
    /\ uimpl = [p \in Updaters |-> "gorm"]
    /\ uid = [p \in Updaters |-> 1]
    /\ uhash = [p \in Updaters |-> "h1"]
    /\ uReadVer = [p \in Updaters |-> 0]
    /\ uRows = [p \in Updaters |-> -1]
    /\ uResult = [p \in Updaters |-> ErrPending]
    /\ uStartVer = [p \in Updaters |-> 0]
    /\ rpc = [r \in Registrars |-> "idle"]
    /\ rname = [r \in Registrars |-> "alice"]
    /\ remail = [r \in Registrars |-> "a@x"]
    /\ rhashed = [r \in Registrars |-> ""]
    /\ rstatus = [r \in Registrars |-> 0]
    /\ rbody = [r \in Registrars |-> << >>]

StoreInit == UsersInit /\ CallsInit

StoreNext ==
    \/ \E p \in Updaters : UpdatePasswordCall(p)
    \/ \E p \in Updaters : GormUpdatePassword(p)
    \/ \E p \in Updaters : MySQLUpdatePassword(p)
    \/ \E p \in Updaters : UpdatePasswordReturn(p)
    \/ Register("r1")

(* No request is in flight while the store is exercised. *)
InitStore == StoreInit /\ GuardInit /\ prod = TRUE
                       /\ BucketInit /\ capacity = 1 /\ rate = 1
                       /\ ChainInit /\ ScanInit

SpecStore == InitStore /\ [][StoreNext]_vars

----------------------------------------------------------------------------
(* Properties of the credential store *)

(* The step in which UpdatePassword returns to its caller p *)
Returns(p) == upc[p] # "returned" /\ upc'[p] = "returned"

Inactive(id) == ~Exists(id) \/ ~users[id].IsActive

(* C1: two UpdatePassword calls for the same user id that both started     *)
(* while the persisted version was v (and met no database failure) end     *)
(* with exactly one success and one NotFound/Conflict failure, and the     *)
(* persisted version is v+1.                                               *)
C1_ExactlyOneWins ==
    \A p, q \in Updaters :
        ( /\ p # q
          /\ upc[p] = "returned" /\ upc[q] = "returned"
          /\ uid[p] = uid[q]
          /\ uStartVer[p] > 0 /\ uStartVer[p] = uStartVer[q]
          /\ users[uid[p]].IsActive
          /\ uResult[p] # ErrDatabaseInternal /\ uResult[q] # ErrDatabaseInternal )
        => /\ {uResult[p], uResult[q]} = {ErrNil, ErrUserNotFound}
           /\ users[uid[p]].Version = uStartVer[p] + 1

(* C2: a write takes effect only in the step in which its call returns     *)
(* success, only on the call's own row, and only if the version persisted  *)
(* at that moment is the version the call read; a call whose read version  *)
(* is stale changes nothing and fails.                                     *)
C2_WriteOnlyAtReadVersion ==
    [][ /\ \A id \in Ids :
              (Exists(id) /\ users'[id] # users[id])
              => \E p \in Updaters :
                    /\ Returns(p) /\ uid[p] = id /\ uResult'[p] = ErrNil
                    /\ users[id].Version = uReadVer'[p]
        /\ \A p \in Updaters :
              ( /\ Returns(p) /\ Exists(uid[p])
                /\ uReadVer'[p] # 0
                /\ users[uid[p]].Version # uReadVer'[p] )
              => (users' = users /\ uResult'[p] # ErrNil)
      ]_vars

(* A call committed at the version it read while a second call for the     *)
(* same row, made before that write, is still waiting to read.             *)
C2_Witness ==
    \E p, q \in Updaters :
        /\ p # q /\ uid[p] = uid[q]
        /\ uimpl[p] = "gorm" /\ upc[p] = "returned" /\ uResult[p] = ErrNil
        /\ users[uid[p]].Version = uReadVer[p] + 1
        /\ upc[q] = "select" /\ uStartVer[q] = uReadVer[p]

(* C3: a row is created with version 1; afterwards its version rises by    *)
(* exactly 1 in a step in which an UpdatePassword for it returns success   *)
(* and is unchanged in every other step.                                   *)
C3_VersionSteps ==
    [][ \A id \in Ids :
          /\ (~Exists(id) /\ users'[id] # NoRow) => users'[id].Version = 1
          /\ Exists(id) =>
               /\ users'[id] # NoRow
               /\ users'[id].Version = users[id].Version +
                     (IF \E p \in Updaters :
                            Returns(p) /\ uid[p] = id /\ uResult'[p] = ErrNil
                        THEN 1 ELSE 0)
      ]_vars

(* A row that Register created has since been updated once, and a call     *)
(* has failed.                                                             *)
C3_Witness ==
    /\ \E id \in Ids : Exists(id) /\ users[id].Username = "bob" /\ users[id].Version = 2
    /\ \E p \in Updaters : upc[p] = "returned" /\ uResult[p] = ErrUserNotFound

(* C4: an UpdatePassword that returns for a user id with no row or with an *)
(* inactive row returns ErrUserNotFound (a failed statement aside), never  *)
(* success, and the table is unchanged.                                    *)
C4_NotFound ==
    [][ \A p \in Updaters :
          (Returns(p) /\ Inactive(uid[p]))
          => /\ uResult'[p] \in {ErrUserNotFound, ErrDatabaseInternal}
             /\ users' = users
      ]_vars

(* Both implementations have answered NotFound, one for an inactive row    *)
(* and one for an id without a row.                                        *)
C4_Witness ==
    \E p, q \in Updaters :
        /\ upc[p] = "returned" /\ uResult[p] = ErrUserNotFound
        /\ Exists(uid[p]) /\ ~users[uid[p]].IsActive
        /\ upc[q] = "returned" /\ uResult[q] = ErrUserNotFound
        /\ ~Exists(uid[q])
        /\ uimpl[p] # uimpl[q]

(* C5: UpdatePassword returns nil exactly when its UPDATE reported one row *)
(* affected, and then the row carries the new hash and the next version;   *)
(* when it reported zero rows the call returns ErrUserNotFound and the     *)
(* table is unchanged.                                                     *)
C5_RowsDecide ==
    [][ \A p \in Updaters :
          Returns(p) =>
             /\ (uResult'[p] = ErrNil) <=> (uRows'[p] = 1)
             /\ uRows'[p] = 1 =>
                   /\ users'[uid[p]].PasswordHash = uhash[p]
                   /\ users'[uid[p]].Version = users[uid[p]].Version + 1
             /\ uRows'[p] = 0 =>
                   (uResult'[p] = ErrUserNotFound /\ users' = users)
      ]_vars

(* One call's UPDATE matched no row and another call's matched one.        *)
C5_Witness ==
    \E p, q \in Updaters :
        /\ upc[p] = "returned" /\ uRows[p] = 0
        /\ upc[q] = "returned" /\ uRows[q] = 1 /\ uResult[q] = ErrNil

----------------------------------------------------------------------------
(* The timeout guard on its own *)

(* The table is left alone while the guard is exercised. *)
InitGuard == GuardInit /\ StoreInit /\ users[1].IsActive
                       /\ BucketInit /\ capacity = 1 /\ rate = 1
                       /\ ChainInit /\ ScanInit

SpecGuard == InitGuard /\ [][GuardNext]_vars

(* The steps of the request's own task: the middleware chain down to the   *)
(* select, the branch taken, the unwinding and the server's send.          *)
RequestTaskStep ==
    \/ RecoveryEnter
    \/ TimeoutMiddlewareStart
    \/ GuardSelect
    \/ GuardTimeoutBranch
    \/ GuardDoneBranch
    \/ RecoveryExit
    \/ ServerSend

(* The runtime timer fires once its duration has passed, and a runnable    *)
(* goroutine is eventually scheduled.  Nothing is assumed of the work.     *)
SpecGuardFair ==
    /\ InitGuard
    /\ [][GuardNext]_vars
    /\ WF_vars(DeadlineElapses)
    /\ WF_vars(RequestTaskStep)

----------------------------------------------------------------------------
(* Properties of the timeout guard.  C6 to C10 are about the race between   *)
(* the work and the guard's own timer, so C7 to C10 are stated for         *)
(* requests whose enclosing context is not cancelled; C12 is about that    *)
(* cancellation.                                                           *)

(* The guard's state machine: Running until the select has taken a case *)
GuardState ==
    IF selected = "none" THEN "Running"
    ELSE IF selected = "timeout" THEN "TimedOut" ELSE "Completed"

(* The guard has returned to its caller *)
GuardReturned == gpc \in {"unwinding", "responded", "sent"}

(* C6: the guard leaves Running for exactly one of Completed and TimedOut  *)
(* and stays there; when it has returned it has taken one branch: on       *)
(* TimedOut it wrote the 503 once and raised nothing, on Completed it      *)
(* wrote no 503 and raised exactly what the worker recorded.               *)
C6_ExactlyOneOutcome ==
    [][ /\ GuardState # "Running" => GuardState' = GuardState
        /\ GuardReturned' =>
              /\ GuardState' \in {"Completed", "TimedOut"}
              /\ GuardState' = "TimedOut" => (n503' = 1 /\ raised' = NoPanic)
              /\ GuardState' = "Completed" => (n503' = 0 /\ raised' = panicErr')
      ]_vars

(* The worker had finished and the deadline had elapsed when the select    *)
(* was entered, and the request has been answered.                         *)
C6_Witness ==
    /\ gpc = "sent"
    /\ readyAtSelect = {"timeout", "done"}

(* C7: when the work returned (without panicking) before the deadline      *)
(* elapsed, the guard writes no 503 and the response sent is the response  *)
(* as the work left it.                                                    *)
C7_WorkResultUnchanged ==
    (gpc = "sent" /\ doneBeforeDeadline /\ panicErr = NoPanic /\ ~parentDone)
    => (n503 = 0 /\ sent = respAtDone)

(* C8: when the deadline elapsed before the work completed, the guard      *)
(* writes the 503 once and the response sent is the 503 response,          *)
(* whatever the work does afterwards.                                      *)
C8_TimeoutIsFinal ==
    (gpc = "sent" /\ selected = "timeout" /\ ~doneBeforeDeadline /\ ~parentDone)
    => (n503 = 1 /\ sent = TimeoutResponse)

(* C9: when the work panicked before the deadline elapsed, the same value  *)
(* is raised on the caller's task, RecoveryMiddleware logs it and answers  *)
(* 500, and no 503 is written.                                             *)
C9_PanicReachesRecovery ==
    (gpc = "sent" /\ doneBeforeDeadline /\ panicErr # NoPanic /\ ~parentDone)
    => /\ raised = panicErr
       /\ Log("[PANIC RECOVERED]", panicErr) \in logs
       /\ sent.status = 500
       /\ n503 = 0

(* C10: a panic of the work after the guard has answered 503 is logged, is *)
(* not raised on the caller's task and produces no further response.       *)
C10_LatePanicSwallowed ==
    (latePanic /\ wpc = "exited" /\ ~parentDone)
    => /\ \E l \in logs : l.arg = panicErr
       /\ raised = NoPanic
       /\ n503 = 1
       /\ resp.status # 500

(* C11: every invocation of the guard returns to its caller, whatever the  *)
(* work does, and the request's task has a step to take in every position *)
(* other than the parked select (and the end of the request).              *)
C11_CallerReturns ==
    /\ (gpc = "guard") ~> GuardReturned
    /\ [](~(ENABLED RequestTaskStep) => gpc \in {"blocked", "sent"})

(* The guard parked in the select, the deadline woke it, and it returned   *)
(* while the work was still running.                                       *)
C11_Witness ==
    /\ GuardReturned
    /\ readyAtSelect = {} /\ selected = "timeout" /\ timerFired
    /\ wpc = "running"

(* C12: the 503 is written only when the guard's own timer has elapsed,    *)
(* and timeoutCtx.Done() is closed under work that is still running only   *)
(* by that timer.                                                          *)
C12_OnlyOwnTimer ==
    /\ n503 > 0 => timerFired
    /\ (wpc = "running" /\ (cancelled \/ parentDone)) => timerFired

----------------------------------------------------------------------------
(* The token bucket on its own *)

(* No request is inside the guard and the table is left alone while the   *)
(* bucket is exercised.                                                    *)
InitBucket == BucketInit /\ GuardInit /\ prod = FALSE
                         /\ StoreInit /\ users[1].IsActive
                         /\ ChainInit /\ ScanInit

SpecBucket == InitBucket /\ [][BucketNext]_vars

----------------------------------------------------------------------------
(* Properties of the token bucket *)

(* The step in which request q's Allow call is decided *)
AllowStep(q) == apc[q] = "allow" /\ apc'[q] # "allow"

(* The step in which the refill goroutine handles the tick it received *)
RefillStep == tpc = "select" /\ tpc' # "select"

Min(a, b) == IF a <= b THEN a ELSE b

(* The latest two operations on the bucket *)
LastTwo ==
    IF Len(lastOps) >= 2
      THEN SubSeq(lastOps, Len(lastOps) - 1, Len(lastOps))
      ELSE lastOps

(* C13: Allow returns true and removes exactly one permit when at least    *)
(* one is available, and returns false leaving the count unchanged         *)
(* otherwise; in both cases it returns at once and raises nothing.         *)
C13_AllowDecides ==
    [][ \A q \in Requests :
          AllowStep(q) =>
             /\ apc'[q] = "decided"
             /\ crashed' = crashed
             /\ IF tokens >= 1
                  THEN allowed'[q] /\ tokens' = tokens - 1
                  ELSE ~allowed'[q] /\ tokens' = tokens
      ]_vars

(* One Allow call has returned true and another false. *)
C13_Witness ==
    \E q, r \in Requests :
        /\ apc[q] = "decided" /\ allowed[q]
        /\ apc[r] = "decided" /\ ~allowed[r]

(* C14: the permit count stays between 0 and the rate, at most rate Allow  *)
(* calls succeed between two refills, and the count rises only by 1 in a   *)
(* refill step and falls only by 1 in a successful Allow.                  *)
C14_CountBounded ==
    /\ [](tokens >= 0 /\ tokens <= capacity /\ grantsSince <= capacity)
    /\ [][ /\ tokens' > tokens => (tokens' = tokens + 1 /\ RefillStep)
           /\ tokens' < tokens =>
                 /\ tokens' = tokens - 1
                 /\ \E q \in Requests : AllowStep(q) /\ allowed'[q]
         ]_vars

(* A full bucket of two or more permits was drained without a refill in    *)
(* between and the next Allow was denied.                                  *)
C14_Witness ==
    /\ capacity >= 2
    /\ kAtTick = capacity /\ grantsSince = capacity /\ callsSince > capacity
    /\ tokens = 0

(* C15: a refill step adds exactly one permit when the bucket holds fewer  *)
(* than rate, leaves a full bucket as it is, and in both cases the refill  *)
(* goroutine is back waiting for the next tick.                            *)
C15_TickAddsOrDiscards ==
    [][ RefillStep =>
          /\ tokens < capacity => tokens' = tokens + 1
          /\ tokens >= capacity => tokens' = tokens
          /\ tpc' = "waiting"
      ]_vars

(* A tick found the bucket full and was discarded. *)
C15_Witness ==
    /\ capacity >= 1
    /\ tokens = capacity /\ nTicks > capacity
    /\ LastTwo = <<"tick", "tick">>
    /\ tpc = "waiting"

(* C16: with rate >= 1 and interval > 0, an Allow that follows a denied    *)
(* Allow and then a refill returns true.                                   *)
C16_RefillRestores ==
    [][ \A q \in Requests :
          ( /\ AllowStep(q)
            /\ capacity >= 1 /\ rate > 0
            /\ LastTwo = <<"deny", "tick">> )
          => allowed'[q]
      ]_vars

(* An Allow was denied, a refill followed, and the next Allow was granted. *)
C16_Witness ==
    /\ capacity >= 1 /\ rate > 0
    /\ lastOps = <<"deny", "tick", "grant">>

(* C17: a limiter created with rate 0 never holds a permit and never       *)
(* answers true.                                                           *)
C17_RateZeroDenies ==
    capacity = 0 => (tokens = 0 /\ \A q \in Requests : ~allowed[q])

(* With rate 0 a refill has run and an Allow after it was denied. *)
C17_Witness ==
    /\ capacity = 0
    /\ LastTwo = <<"tick", "deny">>
    /\ \E q \in Requests : apc[q] = "aborted"

(* C18: a limiter created with interval 0 denies every Allow and the       *)
(* process stays up.                                                       *)
C18_ZeroIntervalFailsClosed ==
    rate = 0 => (~crashed /\ \A q \in Requests : ~allowed[q])

(* C19: between two refills exactly min(n, k) of n Allow calls are granted *)
(* when k permits were available, each grant removes one permit, and a     *)
(* refill that finds room adds its permit.                                 *)
C19_AtomicPermits ==
    /\ [](/\ grantsSince = Min(callsSince, kAtTick)
          /\ tokens = kAtTick - grantsSince)
    /\ [][ (RefillStep /\ tokens < capacity) => kAtTick' = tokens + 1 ]_vars

(* Two requests called Allow on a bucket holding one permit: one was       *)
(* granted and one denied.                                                 *)
C19_Witness ==
    /\ kAtTick = 1 /\ callsSince = 2 /\ grantsSince = 1
    /\ \E q, r \in Requests :
          /\ apc[q] = "decided" /\ allowed[q]
          /\ apc[r] = "decided" /\ ~allowed[r]

(* C20: there is one bucket and one refill goroutine however many requests *)
(* are processed, and the goroutine never leaves its loop while the        *)
(* process lives.                                                          *)
C20_OneRefillTask ==
    /\ nBuckets = 1
    /\ nRefillers = 1
    /\ ~crashed => tpc \in {"start", "waiting", "select"}

(* Several requests have been processed and several ticks handled. *)
C20_Witness ==
    /\ nAllow >= 3 /\ nTicks >= 2
    /\ tpc = "waiting"
    /\ \A q \in Requests : apc[q] = "idle"

----------------------------------------------------------------------------
(* The handler chain on its own *)

(* The other components are left alone while one request runs the chain.   *)
Quiet == GuardInit /\ prod = FALSE /\ StoreInit /\ users[1].IsActive
                   /\ BucketInit /\ capacity = 1 /\ rate = 1

InitChain == ChainInit /\ ScanInit /\ Quiet

SpecChain == InitChain /\ [][ChainNext]_vars

----------------------------------------------------------------------------
(* The content scanner on its own *)

InitScan == ScanInit /\ ChainInit /\ Quiet

SpecScan == InitScan /\ [][ScanNext]_vars

----------------------------------------------------------------------------
(* Properties of the handler chain *)

Before(stage, i) == {j \in 1 .. (i - 1) : stageLog[j].stage = stage}

Passed(stage, i) == \E j \in Before(stage, i) : stageLog[j].ok

(* C21: within one request the stages run in the order scanner, limiter,   *)
(* handler: the limiter is consulted only after the scanner has passed the *)
(* request, and the handler runs only after the limiter has granted it.    *)
C21_StrictOrder ==
    \A i \in 1 .. Len(stageLog) :
        /\ stageLog[i].stage = "limiter" => Passed("scanner", i)
        /\ stageLog[i].stage = "handler" => Passed("limiter", i)

(* The same for requests whose deadline does not fire. *)
C21_OrderWithoutTimeout == ~timedOut => C21_StrictOrder

(* The handler ran although no limiter had granted the request. *)
C21_HandlerUngranted ==
    \E i \in 1 .. Len(stageLog) :
        stageLog[i].stage = "handler" /\ ~Passed("limiter", i)

(* C22: the scanner, the limiter and the handler all execute inside the    *)
(* guard's worker; none of them runs before the guard has started.         *)
C22_InsideGuard ==
    \A i \in 1 .. Len(stageLog) :
        stageLog[i].guarded /\ stageLog[i].task = "worker"

----------------------------------------------------------------------------
(* Properties of the content scanner *)

Matches(p) == \/ XssMatch(p.key) \/ SqlMatch(p.key)
              \/ XssMatch(p.value) \/ SqlMatch(p.value)

(* Some key or value among the request's query and form parameters matches *)
OwnMatch(s) ==
    \/ \E i \in 1 .. Len(sQuery[s]) : Matches(sQuery[s][i])
    \/ \E i \in 1 .. Len(sForm[s]) : Matches(sForm[s][i])

(* C23: hasMaliciousContent returns true exactly when some key or value    *)
(* among the query and form parameters matches the XSS or the SQL pattern, *)
(* and false otherwise; the result is always a boolean.                    *)
C23_TrueIffSomeMatch ==
    \A s \in Scans :
        /\ sResult[s] \in BOOLEAN
        /\ spc[s] = "done" => (sResult[s] = OwnMatch(s))

(* Clean query, a form parameter whose value matches: reported. *)
C23_Witness ==
    /\ spc["s1"] = "done"
    /\ sQuery["s1"] = << P_clean >>
    /\ sForm["s1"] = << P_script >>
    /\ sResult["s1"]

(* C24: once a key or value has matched, the match predicate is not        *)
(* invoked on any later parameter, query or form.                          *)
C24_ShortCircuit ==
    [][\A s \in Scans : nCheck'[s] > nCheck[s] => found[s] = 0]_vars

(* The first of two query parameters matched; the second was visited and   *)
(* check was not invoked on it.                                            *)
C24_Witness ==
    /\ spc["s1"] = "query"
    /\ Len(sQuery["s1"]) = 2 /\ sPos["s1"] = 2
    /\ Matches(sQuery["s1"][1])
    /\ found["s1"] = 1
    /\ nCheck["s1"] <= 2

(* C25: the query parameter q = "1 UNION SELECT * FROM users" is reported  *)
(* as a violation; q = "hello world" is not.                               *)
C25_UpperCaseReported ==
    \A s \in Scans :
        (spc[s] = "done" /\ sForm[s] = << >>) =>
            /\ sQuery[s] = << P_upper >> => sResult[s]
            /\ sQuery[s] = << P_clean >> => ~sResult[s]

(* C26: with scans running concurrently, a scan's flag and result are      *)
(* positive only for a match among its own parameters.                     *)
C26_OwnParametersOnly ==
    \A s \in Scans : (found[s] = 1 \/ sResult[s]) => OwnMatch(s)

(* A clean request scanned to the end while the other scan has found a     *)
(* match and is still running.                                             *)
C26_Witness ==
    /\ spc["s2"] = "query" /\ found["s2"] = 1
    /\ spc["s1"] = "done" /\ sQuery["s1"] # << >> /\ sForm["s1"] # << >>
    /\ ~OwnMatch("s1") /\ ~sResult["s1"]

----------------------------------------------------------------------------
(* Properties of the handlers' answers *)

NameTaken(r) == \E i \in Ids : ActiveRow(i) /\ users[i].Username = rname[r]

(* C27: CreateUser on a duplicate username or email returns the            *)
(* DuplicateEntry outcome and inserts nothing, and Register answers it     *)
(* with 409, not with an internal error.                                   *)
C27_DuplicateIs409 ==
    [][\A r \in Registrars :
          ( /\ rpc[r] = "create" /\ rpc'[r] = "done"
            /\ UniqueViolation(rname[r], remail[r]) )
          => (users' = users /\ rstatus'[r] = 409)]_vars

(* C28: Register with a username that belongs to an active user gives the  *)
(* duplicate answer before any hash is computed and creates no record      *)
(* (when the existence query itself fails the answer is 500, with no hash  *)
(* and no record either).                                                  *)
C28_TakenNameStopsEarly ==
    [][\A r \in Registrars :
          (rpc[r] = "checkName" /\ rpc'[r] # "checkName" /\ NameTaken(r))
          => /\ rpc'[r] = "done"
             /\ rhashed'[r] = ""
             /\ users' = users
             /\ \/ rstatus'[r] = 409
                \/ rstatus'[r] = 500 /\ rbody'[r][1] = "database internal error"]_vars

C28_Witness ==
    \E r \in Registrars :
        /\ rpc[r] = "done" /\ rstatus[r] = 409
        /\ rbody[r] = << "username exists" >>
        /\ NameTaken(r)
        /\ rhashed[r] = ""

(* C29: ChangePassword answers 404 when the repository reports NotFound    *)
(* (and a denied limiter answers 429, a fired deadline 503); none of these *)
(* is answered as 500.                                                     *)
C29_NotFoundIs404 ==
    \A p \in Updaters :
        (upc[p] = "returned" /\ uResult[p] = ErrUserNotFound)
            => ChangePasswordStatus(uResult[p]) = 404

(* A body that carries nothing of the failure's cause *)
Generic(body) == \A i \in 1 .. Len(body) : body[i] # RawDbError

(* C30: in production no answer carries internal detail: a failure inside  *)
(* the database during Register or ChangePassword is answered with a       *)
(* generic message and nothing else.                                       *)
C30_NoInternalDetail ==
    prod =>
        /\ \A r \in Registrars : rstatus[r] = 500 => Generic(rbody[r])
        /\ \A p \in Updaters :
              upc[p] = "returned" => Generic(ChangePasswordBody(uResult[p]))

----------------------------------------------------------------------------
(* Properties of a request through the limiter *)

(* C31: GET /health through the registered chain is answered 200 whenever  *)
(* no core component reports an error, the first request after set-up      *)
(* included.                                                               *)
C31_HealthAnswers200 ==
    \A q \in Requests :
        ( /\ capacity >= 1 /\ rate >= 1
          /\ ~HasCriticalErrors(Components)
          /\ apc[q] \in {"handled", "aborted"} )
        => astatus[q] = 200

Runs(stage) == {i \in 1 .. Len(stageLog) : stageLog[i].stage = stage}

(* C33: each request makes exactly one Allow call; when it returns false   *)
(* the request is aborted and no later stage, the handler included, runs;  *)
(* when it returns true the next stage runs on that one permit.            *)
C33_DeniedStopsChain ==
    /\ Cardinality(Runs("limiter")) <= 1
    /\ \A i \in Runs("limiter") :
          ~stageLog[i].ok => \A j \in Runs("handler") : j < i

(* The same for requests whose deadline does not fire. *)
C33_WithoutTimeout == ~timedOut => C33_DeniedStopsChain

(* C35: every stage after the guard, the handler in particular, runs at    *)
(* most once per request, on completion as on timeout: after the timeout   *)
(* the caller's task does not run the stages the worker is running.        *)
C35_StagesAtMostOnce ==
    /\ \A stage \in {"limiter", "handler"} : Cardinality(Runs(stage)) <= 1
    /\ \A i \in 1 .. Len(stageLog) :
          stageLog[i].guarded => stageLog[i].task = "worker"

(* The same for requests whose deadline does not fire. *)
C35_WithoutTimeout == ~timedOut => C35_StagesAtMostOnce

----------------------------------------------------------------------------
(* Properties of the guard's completion signal *)

(* The step in which the caller reads panicErr: the done branch *)
CallerReadsPanicErr == Selected("done") /\ gpc' = "unwinding"

(* C34: the worker closes done exactly once on every exit path; panicErr   *)
(* is written before the close and read by the caller only after it; the   *)
(* timeout branch never reads it; caller and worker never access it at     *)
(* the same time.                                                          *)
C34_SignalOnceWriteBeforeRead ==
    /\ [](wpc = "exited" => done)
    /\ [](Selected("done") => (done /\ wpc = "exited"))
    /\ [][ /\ done' # done => (~done /\ wpc = "closing" /\ wpc' = "exited")
           /\ panicErr' # panicErr => (~done /\ ~done' /\ wpc = "recovering")
           /\ CallerReadsPanicErr => (wpc = "exited" /\ raised' = panicErr)
           /\ (Selected("timeout") /\ gpc' = "unwinding") => raised' = raised
         ]_vars

(* The work panicked; the value was recorded, done closed, and the caller  *)
(* took the done branch and raised it again.                               *)
C34_Witness ==
    /\ gpc = "unwinding" /\ selected = "done"
    /\ done /\ wpc = "exited"
    /\ panicErr # NoPanic /\ raised = panicErr

----------------------------------------------------------------------------
(* Concurrent registrations on their own *)

(* The table right after migration, or holding alice. *)
EmptyTable == users = [i \in Ids |-> NoRow]

RegisterNext == \E r \in Registrars : Register(r)

InitRegister == (EmptyTable \/ UsersInit) /\ CallsInit
                /\ GuardInit /\ prod = TRUE
                /\ BucketInit /\ capacity = 1 /\ rate = 1
                /\ ChainInit /\ ScanInit

SpecRegister == InitRegister /\ [][RegisterNext]_vars

----------------------------------------------------------------------------
(* Properties of the stored records *)

(* C36: after any interleaving of concurrent Register requests no two      *)
(* stored records share a username or an email; of two requests for the    *)
(* same username that both passed the existence check at most one inserts, *)
(* and the other fails without creating a record.                          *)
C36_UniqueUsers ==
    /\ [](\A i, j \in Ids :
             (i # j /\ Exists(i) /\ Exists(j))
             => /\ users[i].Username # users[j].Username
                /\ users[i].Email # users[j].Email)
    /\ [][ \A r \in Registrars :
             ( /\ rpc[r] = "create" /\ rpc'[r] = "done"
               /\ UniqueViolation(rname[r], remail[r]) )
             => (users' = users /\ rstatus'[r] \notin {200, 201})
         ]_vars

(* Two requests for the same username both passed the existence checks and *)
(* computed their hash; one inserted and the other failed.                 *)
C36_Witness ==
    \E r, x \in Registrars :
        /\ r # x /\ rname[r] = rname[x]
        /\ rpc[r] = "done" /\ rstatus[r] = 201
        /\ rpc[x] = "done" /\ rstatus[x] \notin {0, 201} /\ rhashed[x] = "h0"
        /\ Cardinality({i \in Ids : Exists(i) /\ users[i].Username = rname[r]}) = 1


(* C37: a successful UpdatePassword(userId, h) changes only that user's    *)
(* password hash (to h) and version (the record carries no timestamp       *)
(* here): its id, username, email and active flag are unchanged and no     *)
(* other user's record is modified.                                        *)
C37_UpdateFrame ==
    [][ \A p \in Updaters :
          (Returns(p) /\ uResult'[p] = ErrNil)
          => /\ users[uid[p]] # NoRow /\ users'[uid[p]] # NoRow
             /\ users'[uid[p]].PasswordHash = uhash[p]
             /\ users'[uid[p]].Username = users[uid[p]].Username
             /\ users'[uid[p]].Email = users[uid[p]].Email
             /\ users'[uid[p]].IsActive = users[uid[p]].IsActive
             /\ \A i \in Ids \ {uid[p]} : users'[i] = users[i]
      ]_vars

(* A call has succeeded on one of two stored rows; the other row still     *)
(* carries the hash it was registered with.                                *)
C37_Witness ==
    \E p \in Updaters, j \in Ids :
        /\ upc[p] = "returned" /\ uResult[p] = ErrNil
        /\ j # uid[p] /\ Exists(j) /\ users[j].IsActive
        /\ users[j].PasswordHash = "h0"
        /\ users[uid[p]].PasswordHash = uhash[p]

====
